---- MODULE Spec2Model ----
(***************************************************************************)
(* Langflow wrapper components: TavilySearchComponent (tools/tavily.py),   *)
(* TavilySearchToolComponent (tools/tavily_search.py) and                  *)
(* ParseDataFrameComponent (processing/parse_dataframe.py).                *)
(*                                                                         *)
(* A behaviour is one invocation of one output method of a freshly built   *)
(* component by the host runtime.  Python values are carried tagged        *)
(* ([t |-> "str", v |-> ...]) so that None, strings, lists and dicts stay  *)
(* distinct; a dict is a function whose DOMAIN is its set of keys.         *)
(***************************************************************************)
EXTENDS Integers, Sequences, FiniteSets, TLC

VARIABLES
    method,        \* the output method the host invoked ("idle" before the call)
    pc,            \* position inside the running method
    tavily,        \* TavilySearchComponent: include_answer, include_images, status
    tool,          \* TavilySearchToolComponent: search_depth, topic, flags, status
    args,          \* keyword arguments of the running _tavily_search call
    posts,         \* number of client.post calls made during the invocation
    response,      \* what client.post produced
    exc,           \* exception raised inside the running try block
    data_results,  \* local data_results of fetch_content / _tavily_search
    parser,        \* ParseDataFrameComponent: df, template, sep, status
    locals,        \* parse_data locals: template, sep, lines, next row number
    ret,           \* value returned to the host
    raised         \* exception that escaped to the host

vars == <<method, pc, tavily, tool, args, posts, response, exc, data_results,
          parser, locals, ret, raised>>

\* ------------------------------------------------------------------ bounds
MaxResults == 2        \* longest "results" array in a response
MaxRows == 2           \* most rows in a DataFrame
MaxTemplateLen == 2    \* most literal/field parts in a template

\* ----------------------------------------------------------- Python values
Null == [t |-> "null"]
Str(s) == [t |-> "str", v |-> s]
Num(n) == [t |-> "num", v |-> n]
Arr(q) == [t |-> "arr", v |-> q]
Obj(d) == [t |-> "obj", v |-> d]
Enum(cls, value) == [t |-> "enum", cls |-> cls, v |-> value]
\* a template string, held as str.format parses it: literal text and {fields}
Tpl(parts) == [t |-> "tpl", v |-> parts]
Lit(s) == [k |-> "lit", s |-> s]
Field(s) == [k |-> "field", s |-> s]
Missing == [t |-> "missing"]
EmptyDict == [k \in {} |-> Null]

\* bool(x)
Truthy(x) ==
    CASE x.t = "null" -> FALSE
      [] x.t = "str" -> x.v # ""
      [] x.t = "num" -> x.v # 0
      [] x.t = "arr" -> Len(x.v) > 0
      [] x.t = "tpl" -> Len(x.v) > 0
      [] x.t = "obj" -> DOMAIN x.v # {}
      [] x.t = "enum" -> TRUE

\* dict.get(k, default)
Get(d, k, default) == IF k \in DOMAIN d THEN d[k] ELSE default

\* ------------------------------------------------------------- exceptions
NoExc == [type |-> "none", str |-> "", status_code |-> 0, text |-> ""]
Exc(type, str) == [type |-> type, str |-> str, status_code |-> 0, text |-> ""]

\* the classes an exception is an instance of
Bases(type) ==
    CASE type = "HTTPStatusError" -> {"HTTPStatusError", "HTTPError", "Exception"}
      [] type = "RequestError" -> {"RequestError", "HTTPError", "Exception"}
      [] type = "JSONDecodeError" -> {"JSONDecodeError", "ValueError", "Exception"}
      [] type = "none" -> {}
      [] OTHER -> {type, "Exception"}

IsInstance(e, cls) == cls \in Bases(e.type)

\* ------------------------------------------ the search API's possible replies
NotJson == [t |-> "invalid"]

ResultEntries ==
    { Obj([title |-> Str("t1"), url |-> Str("u1"), content |-> Str("c1"), score |-> Num(9)]),
      Obj([title |-> Str("t2"), url |-> Str("u2"), content |-> Str("c2"), score |-> Num(5)]),
      Obj([title |-> Str("t3"), url |-> Str("u3"), score |-> Num(1)]),
      Str("oops") }

ResultSeqs == UNION { [1..n -> ResultEntries] : n \in 0..MaxResults }

Body(a, r, i) ==
    LET f == [answer |-> a, results |-> r, images |-> i]
        keys == {k \in DOMAIN f : f[k].t # "missing"}
    IN  Obj([k \in keys |-> f[k]])

JsonBodies ==
    { Body(a, r, i) : a \in {Missing, Null, Str(""), Str("A")},
                      r \in {Missing, Null} \cup {Arr(q) : q \in ResultSeqs},
                      i \in {Missing, Arr(<<>>), Arr(<<Str("i1")>>)} }
    \cup {Arr(<<>>)}

NoReply == [kind |-> "none", status_code |-> 0, text |-> "", body |-> NotJson]

Replies ==
    { [kind |-> "error", status_code |-> 0, text |-> "timed out", body |-> NotJson] }
    \cup { [kind |-> "response", status_code |-> c, text |-> "denied", body |-> NotJson]
             : c \in {401, 500} }
    \cup { [kind |-> "response", status_code |-> 200, text |-> "", body |-> b]
             : b \in JsonBodies \cup {NotJson} }

StatusText(code) ==
    CASE code = 200 -> "200" [] code = 401 -> "401" [] code = 500 -> "500" [] OTHER -> "0"

\* client.post(url, json=payload, headers=headers)
PostExc(reply) ==
    IF reply.kind = "error" THEN Exc("RequestError", reply.text) ELSE NoExc

\* response.raise_for_status()
RaiseForStatus(reply) ==
    IF reply.status_code >= 400
    THEN [type |-> "HTTPStatusError", str |-> "status " \o StatusText(reply.status_code),
          status_code |-> reply.status_code, text |-> reply.text]
    ELSE NoExc

\* response.json()
JsonExc(reply) ==
    IF reply.body.t = "invalid" THEN Exc("JSONDecodeError", "Expecting value") ELSE NoExc

\* search_results.get(...) and the loop over the results: the first exception raised
BodyExc(search_results) ==
    IF search_results.t # "obj"
    THEN Exc("AttributeError", "object has no attribute 'get'")
    ELSE LET results == Get(search_results.v, "results", Arr(<<>>)) IN
         IF results.t # "arr"
         THEN Exc("TypeError", "object is not iterable")
         ELSE IF \E i \in 1..Len(results.v) : results.v[i].t # "obj"
              THEN Exc("AttributeError", "object has no attribute 'get'")
              ELSE NoExc

\* raise_for_status, json and the construction of the records, in source order
TryBodyExc(reply) ==
    IF RaiseForStatus(reply).type # "none" THEN RaiseForStatus(reply)
    ELSE IF JsonExc(reply).type # "none" THEN JsonExc(reply)
    ELSE BodyExc(reply.body)

\* ----------------------------------------- TavilySearchComponent (tavily.py)
NoStatus == [t |-> "unset"]
NoRet == [t |-> "none"]

\* variant: the answer record is added whenever the response has an answer
FcAnswerRecordsIgnoringFlag(search_results, include_answer) ==
    IF Truthy(Get(search_results, "answer", Null))
    THEN << [text |-> search_results["answer"], data |-> EmptyDict] >>
    ELSE << >>

FcAnswerRecords(search_results, include_answer) ==
    IF include_answer /\ Truthy(Get(search_results, "answer", Null))
    THEN << [text |-> search_results["answer"], data |-> EmptyDict] >>
    ELSE << >>

FcResultRecord(result) ==
    LET content == Get(result, "content", Str("")) IN
    [text |-> content,
     data |-> [title |-> Get(result, "title", Null),
               url |-> Get(result, "url", Null),
               content |-> content,
               score |-> Get(result, "score", Null)]]

RECURSIVE FcAppendResults(_, _, _)
FcAppendResults(acc, results, i) ==
    IF i > Len(results) THEN acc
    ELSE FcAppendResults(Append(acc, FcResultRecord(results[i].v)), results, i + 1)

FcImagesRecords(search_results, include_images) ==
    IF include_images /\ Truthy(Get(search_results, "images", Null))
    THEN << [text |-> Str("Imagens encontradas"),
             data |-> [images |-> search_results["images"]]] >>
    ELSE << >>

FcDataResults(search_results, include_answer, include_images) ==
    FcAppendResults(FcAnswerRecords(search_results, include_answer),
                    Get(search_results, "results", Arr(<<>>)).v, 1)
    \o FcImagesRecords(search_results, include_images)

\* the except clauses of fetch_content, in order
FcExcept(e) ==
    IF IsInstance(e, "HTTPStatusError")
    THEN [caught |-> TRUE,
          msg |-> "Erro HTTP ocorrido: " \o StatusText(e.status_code) \o " - " \o e.text]
    ELSE IF IsInstance(e, "RequestError")
    THEN [caught |-> TRUE, msg |-> "Erro de requisição ocorrido: " \o e.str]
    ELSE IF IsInstance(e, "ValueError")
    THEN [caught |-> TRUE, msg |-> "Formato de resposta inválido: " \o e.str]
    ELSE [caught |-> FALSE, msg |-> ""]

FcErrorRecord(error_message) ==
    [text |-> Str(error_message), data |-> [error |-> Str(error_message)]]

Init ==
    /\ method = "idle"
    /\ pc = "idle"
    /\ tavily = [include_answer |-> TRUE, include_images |-> TRUE, status |-> NoStatus]
    /\ tool = [search_depth |-> Enum("TavilySearchDepth", "advanced"),
               topic |-> Enum("TavilySearchTopic", "general"),
               include_answer |-> FALSE, include_images |-> FALSE, status |-> NoStatus]
    /\ args = [search_depth |-> Enum("TavilySearchDepth", "basic"),
               topic |-> Enum("TavilySearchTopic", "general"),
               include_answer |-> FALSE, include_images |-> FALSE]
    /\ posts = 0
    /\ response = NoReply
    /\ exc = NoExc
    /\ data_results = << >>
    /\ parser = [df |-> << >>, template |-> Tpl(<<Field("text")>>), sep |-> Str("\n"),
                 status |-> NoStatus]
    /\ locals = [template |-> Tpl(<< >>), sep |-> Str(""), lines |-> << >>, row |-> 1]
    /\ ret = NoRet
    /\ raised = NoExc

\* the host sets the inputs and calls fetch_content
FetchContentCall ==
    /\ method = "idle"
    /\ method' = "fetch_content"
    /\ pc' = "fc_post"
    /\ \E include_answer \in BOOLEAN, include_images \in BOOLEAN :
         tavily' = [tavily EXCEPT !.include_answer = include_answer,
                                  !.include_images = include_images]
    /\ UNCHANGED <<tool, args, posts, response, exc, data_results, parser, locals,
                   ret, raised>>

\* the host sets the inputs and calls fetch_content_text, which calls fetch_content
FetchContentTextCall ==
    /\ method = "idle"
    /\ method' = "fetch_content_text"
    /\ pc' = "fc_post"
    /\ \E include_answer \in BOOLEAN, include_images \in BOOLEAN :
         tavily' = [tavily EXCEPT !.include_answer = include_answer,
                                  !.include_images = include_images]
    /\ UNCHANGED <<tool, args, posts, response, exc, data_results, parser, locals,
                   ret, raised>>

FetchContentPost ==
    /\ pc = "fc_post"
    /\ \E reply \in Replies :
         /\ response' = reply
         /\ exc' = PostExc(reply)
         /\ pc' = IF PostExc(reply).type # "none" THEN "fc_except" ELSE "fc_process"
    /\ posts' = posts + 1
    /\ UNCHANGED <<method, tavily, tool, args, data_results, parser, locals, ret, raised>>

FetchContentProcess ==
    /\ pc = "fc_process"
    /\ exc' = TryBodyExc(response)
    /\ IF TryBodyExc(response).type # "none"
       THEN /\ pc' = "fc_except"
            /\ UNCHANGED data_results
       ELSE /\ pc' = "fc_else"
            /\ data_results' = FcDataResults(response.body.v, tavily.include_answer,
                                             tavily.include_images)
    /\ UNCHANGED <<method, tavily, tool, args, posts, response, parser, locals,
                   ret, raised>>

\* where fetch_content's caller continues once it has returned a list
FcAfterReturn == IF method = "fetch_content_text" THEN "fct_text" ELSE "done"

FetchContentExcept ==
    /\ pc = "fc_except"
    /\ IF FcExcept(exc).caught
       THEN /\ ret' = [t |-> "list", v |-> << FcErrorRecord(FcExcept(exc).msg) >>]
            /\ pc' = FcAfterReturn
            /\ UNCHANGED raised
       ELSE /\ raised' = exc
            /\ pc' = "done"
            /\ UNCHANGED ret
    /\ UNCHANGED <<method, tavily, tool, args, posts, response, exc, data_results,
                   parser, locals>>

FetchContentElse ==
    /\ pc = "fc_else"
    /\ tavily' = [tavily EXCEPT !.status = [t |-> "list", v |-> data_results]]
    /\ ret' = [t |-> "list", v |-> data_results]
    /\ pc' = FcAfterReturn
    /\ UNCHANGED <<method, tool, args, posts, response, exc, data_results, parser,
                   locals, raised>>

\* data_to_text("{text}", data) receives the records; its result is carried as the
\* texts of the records it was given, in order
FetchContentTextFinish ==
    /\ pc = "fct_text"
    /\ LET result_string == [t |-> "text", v |-> [i \in 1..Len(ret.v) |-> ret.v[i].text]] IN
         /\ tavily' = [tavily EXCEPT !.status = result_string]
         /\ ret' = [t |-> "message", v |-> result_string.v]
    /\ pc' = "done"
    /\ UNCHANGED <<method, tool, args, posts, response, exc, data_results, parser,
                   locals, raised>>

\* ------------------------------ TavilySearchToolComponent (tavily_search.py)
EnumValues(cls) ==
    IF cls = "TavilySearchDepth" THEN {"basic", "advanced"} ELSE {"general", "news"}

\* str(x).lower() on the strings the host may supply
Lower(s) ==
    CASE s = "Advanced" -> "advanced" [] s = "NEWS" -> "news" [] OTHER -> s

PyStr(x) == IF x.t = "enum" THEN x.cls \o "." \o x.v ELSE x.v

\* variant: a plain string passes for an enum member
IsEnumInstanceLoose(x, cls) == x.t \in {"enum", "str"}

\* isinstance(x, cls) for an enum class
IsEnumInstance(x, cls) == x.t = "enum" /\ x.cls = cls

\* cls(value): the member with that value, or ValueError
EnumLookup(cls, value) ==
    IF value \in EnumValues(cls)
    THEN [exc |-> NoExc, value |-> Enum(cls, value)]
    ELSE [exc |-> Exc("ValueError", "'" \o value \o "' is not a valid " \o cls),
          value |-> Null]

\* x if isinstance(x, cls) else cls(str(x).lower())
ConvertEnum(x, cls) ==
    IF IsEnumInstance(x, cls) THEN [exc |-> NoExc, value |-> x]
    ELSE EnumLookup(cls, Lower(PyStr(x)))

DepthInputs ==
    { Enum("TavilySearchDepth", "basic"), Enum("TavilySearchDepth", "advanced"),
      Str("Advanced"), Str("deep") }

TopicInputs ==
    { Enum("TavilySearchTopic", "general"), Enum("TavilySearchTopic", "news"),
      Str("NEWS"), Str("sports") }

ToolErrorRecord(error_message) == [data |-> [error |-> Str(error_message)]]

TsResultRecord(item) ==
    [data |-> [title |-> Get(item, "title", Null),
               url |-> Get(item, "url", Null),
               content |-> Get(item, "content", Null),
               score |-> Get(item, "score", Null)]]

\* list.insert(index, x)
ListInsert(list, index, x) ==
    SubSeq(list, 1, index) \o <<x>> \o SubSeq(list, index + 1, Len(list))

\* variant: the answer record is appended instead of inserted at index 0
TsInsertAnswerAtEnd(list, resultados, include_answer) ==
    IF include_answer /\ Truthy(Get(resultados, "answer", Null))
    THEN Append(list, [data |-> [answer |-> resultados["answer"]]])
    ELSE list

TsInsertAnswer(list, resultados, include_answer) ==
    IF include_answer /\ Truthy(Get(resultados, "answer", Null))
    THEN ListInsert(list, 0, [data |-> [answer |-> resultados["answer"]]])
    ELSE list

TsAppendImages(list, resultados, include_images) ==
    IF include_images /\ Truthy(Get(resultados, "images", Null))
    THEN Append(list, [data |-> [images |-> resultados["images"]]])
    ELSE list

TsDataResults(resultados, include_answer, include_images) ==
    LET items == Get(resultados, "results", Arr(<<>>)).v
        comprehension == [i \in 1..Len(items) |-> TsResultRecord(items[i].v)]
    IN  TsAppendImages(TsInsertAnswer(comprehension, resultados, include_answer),
                       resultados, include_images)

\* variant: the second clause is as narrow as fetch_content's
TsExceptNarrow(e) ==
    IF IsInstance(e, "HTTPStatusError")
    THEN [caught |-> TRUE,
          msg |-> "Erro HTTP: " \o StatusText(e.status_code) \o " - " \o e.text]
    ELSE IF IsInstance(e, "ValueError")
    THEN [caught |-> TRUE, msg |-> "Erro inesperado: " \o e.str]
    ELSE [caught |-> FALSE, msg |-> ""]

\* the except clauses of _tavily_search, in order
TsExcept(e) ==
    IF IsInstance(e, "HTTPStatusError")
    THEN [caught |-> TRUE,
          msg |-> "Erro HTTP: " \o StatusText(e.status_code) \o " - " \o e.text]
    ELSE IF IsInstance(e, "Exception")
    THEN [caught |-> TRUE, msg |-> "Erro inesperado: " \o e.str]
    ELSE [caught |-> FALSE, msg |-> ""]

\* the host sets the inputs and calls run_model
RunModelCall ==
    /\ method = "idle"
    /\ method' = "run_model"
    /\ pc' = "rm_convert"
    /\ \E search_depth \in DepthInputs, topic \in TopicInputs,
          include_answer \in BOOLEAN, include_images \in BOOLEAN :
         tool' = [tool EXCEPT !.search_depth = search_depth, !.topic = topic,
                              !.include_answer = include_answer,
                              !.include_images = include_images]
    /\ UNCHANGED <<tavily, args, posts, response, exc, data_results, parser, locals,
                   ret, raised>>

RunModelConvert ==
    /\ pc = "rm_convert"
    /\ LET search_depth_enum == ConvertEnum(tool.search_depth, "TavilySearchDepth")
           topic_enum == ConvertEnum(tool.topic, "TavilySearchTopic")
           depth_message == "Valor de profundidade de busca inválido: "
                                \o search_depth_enum.exc.str
           topic_message == "Valor de tópico inválido: " \o topic_enum.exc.str
       IN  IF search_depth_enum.exc.type # "none"
           THEN /\ tool' = [tool EXCEPT !.status = Str(depth_message)]
                /\ ret' = [t |-> "list", v |-> << ToolErrorRecord(depth_message) >>]
                /\ pc' = "done"
                /\ UNCHANGED args
           ELSE IF topic_enum.exc.type # "none"
           THEN /\ tool' = [tool EXCEPT !.status = Str(topic_message)]
                /\ ret' = [t |-> "list", v |-> << ToolErrorRecord(topic_message) >>]
                /\ pc' = "done"
                /\ UNCHANGED args
           ELSE /\ args' = [search_depth |-> search_depth_enum.value,
                            topic |-> topic_enum.value,
                            include_answer |-> tool.include_answer,
                            include_images |-> tool.include_images]
                /\ pc' = "ts_validate"
                /\ UNCHANGED <<tool, ret>>
    /\ UNCHANGED <<method, tavily, posts, response, exc, data_results, parser, locals,
                   raised>>

\* _tavily_search called as the structured tool's function
TavilySearchCall ==
    /\ method = "idle"
    /\ method' = "_tavily_search"
    /\ pc' = "ts_validate"
    /\ \E search_depth \in DepthInputs, topic \in TopicInputs,
          include_answer \in BOOLEAN, include_images \in BOOLEAN :
         args' = [search_depth |-> search_depth, topic |-> topic,
                  include_answer |-> include_answer, include_images |-> include_images]
    /\ UNCHANGED <<tavily, tool, posts, response, exc, data_results, parser, locals,
                   ret, raised>>

TavilySearchValidate ==
    /\ pc = "ts_validate"
    /\ IF ~IsEnumInstance(args.search_depth, "TavilySearchDepth")
       THEN /\ raised' = Exc("TypeError", "Profundidade de busca inválida: "
                                              \o PyStr(args.search_depth))
            /\ pc' = "done"
       ELSE IF ~IsEnumInstance(args.topic, "TavilySearchTopic")
       THEN /\ raised' = Exc("TypeError", "Tópico de busca inválido: "
                                              \o PyStr(args.topic))
            /\ pc' = "done"
       ELSE /\ pc' = "ts_post"
            /\ UNCHANGED raised
    /\ UNCHANGED <<method, tavily, tool, args, posts, response, exc, data_results,
                   parser, locals, ret>>

TavilySearchPost ==
    /\ pc = "ts_post"
    /\ \E reply \in Replies :
         /\ response' = reply
         /\ exc' = PostExc(reply)
         /\ pc' = IF PostExc(reply).type # "none" THEN "ts_except" ELSE "ts_process"
    /\ posts' = posts + 1
    /\ UNCHANGED <<method, tavily, tool, args, data_results, parser, locals, ret, raised>>

TavilySearchProcess ==
    /\ pc = "ts_process"
    /\ exc' = TryBodyExc(response)
    /\ IF TryBodyExc(response).type # "none"
       THEN /\ pc' = "ts_except"
            /\ UNCHANGED <<data_results, tool>>
       ELSE LET list == TsDataResults(response.body.v, args.include_answer,
                                      args.include_images) IN
            /\ pc' = "ts_return"
            /\ data_results' = list
            /\ tool' = [tool EXCEPT !.status = [t |-> "list", v |-> list]]
    /\ UNCHANGED <<method, tavily, args, posts, response, parser, locals, ret, raised>>

\* variant: the first failure is retried once
TavilySearchExceptRetry ==
    /\ pc = "ts_except"
    /\ IF posts < 2
       THEN /\ pc' = "ts_post"
            /\ UNCHANGED <<tool, raised>>
       ELSE /\ tool' = [tool EXCEPT !.status = Str("Erro inesperado: " \o exc.str)]
            /\ raised' = Exc("ToolException", "Erro inesperado: " \o exc.str)
            /\ pc' = "done"
    /\ UNCHANGED <<method, tavily, args, posts, response, exc, data_results, parser,
                   locals, ret>>

TavilySearchExcept ==
    /\ pc = "ts_except"
    /\ IF TsExcept(exc).caught
       THEN /\ tool' = [tool EXCEPT !.status = Str(TsExcept(exc).msg)]
            /\ raised' = Exc("ToolException", TsExcept(exc).msg)
       ELSE /\ raised' = exc
            /\ UNCHANGED tool
    /\ pc' = "done"
    /\ UNCHANGED <<method, tavily, args, posts, response, exc, data_results, parser,
                   locals, ret>>

TavilySearchReturn ==
    /\ pc = "ts_return"
    /\ ret' = [t |-> "list", v |-> data_results]
    /\ pc' = "done"
    /\ UNCHANGED <<method, tavily, tool, args, posts, response, exc, data_results,
                   parser, locals, raised>>

\* ------------------------ ParseDataFrameComponent (parse_dataframe.py)
Columns == { {"text"}, {"text", "name"} }
CellValues == {"x", "y"}

DataFrames ==
    UNION { UNION { [1..n -> [cols -> CellValues]] : n \in 0..MaxRows } : cols \in Columns }

TemplateParts == { Lit("a"), Field("text"), Field("name") }

TemplateInputs ==
    {Null} \cup { Tpl(q) : q \in UNION { [1..n -> TemplateParts] : n \in 0..MaxTemplateLen } }

SepInputs == { Null, Str(""), Str(","), Str("\n") }

\* a or b
PyOr(a, b) == IF Truthy(a) THEN a ELSE b

CleanTemplate(template) == PyOr(template, Tpl(<< Field("text") >>))

\* variant: only an unset separator is replaced
CleanSepNoneOnly(sep) == IF sep.t = "null" THEN Str("\n") ELSE sep

CleanSep(sep) == PyOr(sep, Str("\n"))

\* template.format(**row_dict): KeyError for a field that is no key of row_dict
FormatExc(parts, row_dict) ==
    IF \E i \in 1..Len(parts) : parts[i].k = "field" /\ parts[i].s \notin DOMAIN row_dict
    THEN Exc("KeyError", "field")
    ELSE NoExc

RECURSIVE Format(_, _)
Format(parts, row_dict) ==
    IF Len(parts) = 0 THEN ""
    ELSE (IF Head(parts).k = "lit" THEN Head(parts).s ELSE row_dict[Head(parts).s])
         \o Format(Tail(parts), row_dict)

\* sep.join(lines)
RECURSIVE Join(_, _)
Join(sep, lines) ==
    IF Len(lines) = 0 THEN ""
    ELSE IF Len(lines) = 1 THEN lines[1]
    ELSE lines[1] \o sep \o Join(sep, Tail(lines))

\* variant: each line is put in front of the earlier ones
AppendLineFront(lines, text_line) == <<text_line>> \o lines

\* lines.append(text_line)
AppendLine(lines, text_line) == Append(lines, text_line)

\* the host sets the inputs and calls parse_data
ParseDataCall ==
    /\ method = "idle"
    /\ method' = "parse_data"
    /\ pc' = "pd_clean"
    /\ \E dataframe \in DataFrames, template \in TemplateInputs, sep \in SepInputs :
         parser' = [parser EXCEPT !.df = dataframe, !.template = template, !.sep = sep]
    /\ UNCHANGED <<tavily, tool, args, posts, response, exc, data_results, locals,
                   ret, raised>>

CleanArgs ==
    /\ pc = "pd_clean"
    /\ locals' = [template |-> CleanTemplate(parser.template),
                  sep |-> CleanSep(parser.sep),
                  lines |-> << >>,
                  row |-> 1]
    /\ pc' = "pd_loop"
    /\ UNCHANGED <<method, tavily, tool, args, posts, response, exc, data_results,
                   parser, ret, raised>>

\* one pass of the loop over dataframe.iterrows()
ParseDataFormatRow ==
    /\ pc = "pd_loop"
    /\ locals.row <= Len(parser.df)
    /\ LET row_dict == parser.df[locals.row] IN
       IF FormatExc(locals.template.v, row_dict).type # "none"
       THEN /\ raised' = FormatExc(locals.template.v, row_dict)
            /\ pc' = "done"
            /\ UNCHANGED locals
       ELSE /\ locals' = [locals EXCEPT
                            !.lines = AppendLine(@, Format(locals.template.v, row_dict)),
                            !.row = @ + 1]
            /\ UNCHANGED <<pc, raised>>
    /\ UNCHANGED <<method, tavily, tool, args, posts, response, exc, data_results,
                   parser, ret>>

\* after the loop: join, store in status, return the Message
ParseDataJoin ==
    /\ pc = "pd_loop"
    /\ locals.row > Len(parser.df)
    /\ LET result_string == Join(locals.sep.v, locals.lines) IN
         /\ parser' = [parser EXCEPT !.status = Str(result_string)]
         /\ ret' = [t |-> "message", v |-> result_string]
    /\ pc' = "done"
    /\ UNCHANGED <<method, tavily, tool, args, posts, response, exc, data_results,
                   locals, raised>>

Next ==
    \/ FetchContentCall
    \/ FetchContentTextCall
    \/ FetchContentPost
    \/ FetchContentProcess
    \/ FetchContentExcept
    \/ FetchContentElse
    \/ FetchContentTextFinish
    \/ RunModelCall
    \/ RunModelConvert
    \/ TavilySearchCall
    \/ TavilySearchValidate
    \/ TavilySearchPost
    \/ TavilySearchProcess
    \/ TavilySearchExcept
    \/ TavilySearchReturn
    \/ ParseDataCall
    \/ CleanArgs
    \/ ParseDataFormatRow
    \/ ParseDataJoin

\* =============================================================== properties
ToolMethods == {"run_model", "_tavily_search"}

RequestFailed == response.kind = "error"

HttpErrorStatus == response.kind = "response" /\ response.status_code >= 400

\* a 200 reply whose body is not JSON, not an object, or whose "results" is not a
\* list of objects
MalformedBody ==
    /\ response.kind = "response"
    /\ response.status_code < 400
    /\ \/ response.body.t # "obj"
       \/ /\ "results" \in DOMAIN response.body.v
          /\ \/ response.body.v["results"].t # "arr"
             \/ \E j \in 1..Len(response.body.v["results"].v) :
                    response.body.v["results"].v[j].t # "obj"

SearchFailed == posts > 0 /\ (RequestFailed \/ HttpErrorStatus \/ MalformedBody)

SearchSucceeded ==
    posts > 0 /\ response.kind = "response" /\ ~HttpErrorStatus /\ ~MalformedBody

IncludeAnswer ==
    IF method \in ToolMethods THEN args.include_answer ELSE tavily.include_answer

IncludeImages ==
    IF method \in ToolMethods THEN args.include_images ELSE tavily.include_images

ResponseResults ==
    IF "results" \in DOMAIN response.body.v THEN response.body.v["results"].v ELSE << >>

HasAnswer ==
    /\ "answer" \in DOMAIN response.body.v
    /\ response.body.v["answer"].t = "str"
    /\ response.body.v["answer"].v # ""

HasImages ==
    /\ "images" \in DOMAIN response.body.v
    /\ response.body.v["images"].t = "arr"
    /\ Len(response.body.v["images"].v) > 0

ResultFields == {"title", "url", "content", "score"}

IsResultRecord(r) == DOMAIN r.data = ResultFields

IsAnswerRecord(r) == DOMAIN r.data \subseteq {"answer"}

IsImagesRecord(r) == DOMAIN r.data = {"images"}

Kind(r) ==
    IF IsResultRecord(r) THEN "result"
    ELSE IF IsImagesRecord(r) THEN "images"
    ELSE IF IsAnswerRecord(r) THEN "answer"
    ELSE "other"

Layout(list) == [p \in 1..Len(list) |-> Kind(list[p])]

ExpectedLayout ==
    (IF IncludeAnswer /\ HasAnswer THEN <<"answer">> ELSE << >>)
    \o [j \in 1..Len(ResponseResults) |-> "result"]
    \o (IF IncludeImages /\ HasImages THEN <<"images">> ELSE << >>)

ListFinished ==
    pc = "done" /\ method \in {"fetch_content", "run_model", "_tavily_search"}

\* C1: whenever the search call of fetch_content fails (request error, HTTP error
\* status, malformed response body), fetch_content raises nothing and returns
\* exactly one record whose text is the error message and whose data is
\* {"error": that message}.
C1_FetchContentCatchesEveryFailure ==
    (method = "fetch_content" /\ pc = "done" /\ SearchFailed) =>
        /\ raised.type = "none"
        /\ ret.t = "list"
        /\ Len(ret.v) = 1
        /\ ret.v[1].text.t = "str"
        /\ DOMAIN ret.v[1].data = {"error"}
        /\ ret.v[1].data["error"] = ret.v[1].text

\* C2: whenever the request or the response processing of _tavily_search fails,
\* the method ends by raising ToolException carrying the error message, self.status
\* holds the same message, no list is returned and no other exception type escapes.
C2_ToolFailureRaisesToolException ==
    (method \in ToolMethods /\ pc = "done" /\ SearchFailed) =>
        /\ raised.type = "ToolException"
        /\ ret.t = "none"
        /\ tool.status = Str(raised.str)
        /\ raised.str = (IF HttpErrorStatus
                         THEN "Erro HTTP: " \o StatusText(response.status_code) \o " - "
                                  \o response.text
                         ELSE "Erro inesperado: " \o exc.str)

C2_Witness ==
    /\ method = "_tavily_search"
    /\ pc = "done"
    /\ SearchFailed
    /\ MalformedBody
    /\ exc.type = "AttributeError"
    /\ raised.type = "ToolException"

InvalidEnumString(x, cls) == x.t = "str" /\ Lower(x.v) \notin EnumValues(cls)

InvalidEnumInput ==
    IF method = "run_model"
    THEN \/ InvalidEnumString(tool.search_depth, "TavilySearchDepth")
         \/ InvalidEnumString(tool.topic, "TavilySearchTopic")
    ELSE \/ InvalidEnumString(args.search_depth, "TavilySearchDepth")
         \/ InvalidEnumString(args.topic, "TavilySearchTopic")

\* C3 as stated: run_model or _tavily_search given an invalid enum string for
\* search_depth or topic ends by raising a typed error.
C3_InvalidEnumRaises ==
    (method \in ToolMethods /\ pc = "done" /\ InvalidEnumInput) =>
        raised.type \in {"TypeError", "ValueError"}

\* C3 amended: _tavily_search given an invalid enum string raises TypeError before
\* any request; run_model given one raises nothing, sends no request, sets
\* self.status to the error message and returns exactly one record holding that
\* message under "error".
C3_InvalidEnumRejected ==
    (method \in ToolMethods /\ pc = "done" /\ InvalidEnumInput) =>
        /\ posts = 0
        /\ IF method = "_tavily_search"
           THEN raised.type = "TypeError" /\ ret.t = "none"
           ELSE /\ raised.type = "none"
                /\ ret.t = "list"
                /\ Len(ret.v) = 1
                /\ DOMAIN ret.v[1].data = {"error"}
                /\ tool.status = ret.v[1].data["error"]

C3_Witness ==
    /\ method = "run_model"
    /\ pc = "done"
    /\ tool.search_depth.t = "enum"
    /\ InvalidEnumString(tool.topic, "TavilySearchTopic")
    /\ ret.t = "list"

\* C4: one invocation of fetch_content, fetch_content_text, run_model or
\* _tavily_search sends at most one POST, also after a failed request or parse.
C4_AtMostOnePost == posts <= 1

C4_Witness ==
    /\ pc = "done"
    /\ method \in ToolMethods
    /\ posts = 1
    /\ SearchFailed
    /\ raised.type = "ToolException"

\* C5: after a successful search the returned list has one record per entry of
\* "results", with exactly the fields title, url, content, score, each field the
\* entry has taken from it; its length is the number of results, plus one for a
\* requested non-empty answer, plus one for a requested non-empty images list; no
\* answer (images) record appears when include_answer (include_images) is false.
C5_SuccessfulSearchShape ==
    (ListFinished /\ SearchSucceeded) =>
        /\ raised.type = "none"
        /\ ret.t = "list"
        /\ Len(ret.v) = Len(ResponseResults)
                          + (IF IncludeAnswer /\ HasAnswer THEN 1 ELSE 0)
                          + (IF IncludeImages /\ HasImages THEN 1 ELSE 0)
        /\ LET records == SelectSeq(ret.v, IsResultRecord) IN
             /\ Len(records) = Len(ResponseResults)
             /\ \A j \in 1..Len(ResponseResults) :
                  \A f \in DOMAIN ResponseResults[j].v :
                      records[j].data[f] = ResponseResults[j].v[f]
        /\ ~IncludeAnswer => \A p \in 1..Len(ret.v) : ~IsAnswerRecord(ret.v[p])
        /\ ~IncludeImages => \A p \in 1..Len(ret.v) : ~IsImagesRecord(ret.v[p])

C5_Witness ==
    /\ ListFinished
    /\ method = "fetch_content"
    /\ SearchSucceeded
    /\ Len(ResponseResults) = 2
    /\ ~IncludeAnswer
    /\ HasAnswer
    /\ IncludeImages
    /\ HasImages
    /\ Len(ret.v) = 3

\* C8: after a successful search the list is: the answer record if present, then
\* the result records in the order of "results", then the images record if
\* present; and the other Tavily component lays out the same response under the
\* same flags in the same way.
C8_RecordOrder ==
    (ListFinished /\ SearchSucceeded) =>
        /\ ret.t = "list"
        /\ Layout(ret.v) = ExpectedLayout
        /\ LET off == IF IncludeAnswer /\ HasAnswer THEN 1 ELSE 0 IN
             \A j \in 1..Len(ResponseResults) :
                 /\ ret.v[off + j].data["title"] = ResponseResults[j].v["title"]
                 /\ ret.v[off + j].data["url"] = ResponseResults[j].v["url"]
        /\ Layout(ret.v) =
             Layout(IF method \in ToolMethods
                    THEN FcDataResults(response.body.v, IncludeAnswer, IncludeImages)
                    ELSE TsDataResults(response.body.v, IncludeAnswer, IncludeImages))

C8_Witness ==
    /\ ListFinished
    /\ method = "_tavily_search"
    /\ SearchSucceeded
    /\ IncludeAnswer /\ HasAnswer
    /\ IncludeImages /\ HasImages
    /\ Len(ResponseResults) = 2
    /\ ResponseResults[1] # ResponseResults[2]
    /\ Layout(ret.v) = <<"answer", "result", "result", "images">>

ParseReturned == method = "parse_data" /\ pc = "done" /\ ret.t = "message"

FormattedRows(parts) ==
    [r \in 1..Len(parser.df) |-> Format(parts, parser.df[r])]

EffectiveTemplate ==
    IF parser.template.t = "tpl" /\ Len(parser.template.v) > 0
    THEN parser.template.v ELSE << Field("text") >>

EffectiveSep ==
    IF parser.sep.t = "str" /\ parser.sep.v # "" THEN parser.sep.v ELSE "\n"

C7_CleanedArgsNeverEmpty ==
    (method = "parse_data" /\ pc \in {"pd_loop", "done"}) =>
        /\ locals.template.t = "tpl" /\ Len(locals.template.v) > 0
        /\ locals.sep.t = "str" /\ locals.sep.v # ""
        /\ locals.template = Tpl(EffectiveTemplate)
        /\ locals.sep = Str(EffectiveSep)
        /\ (parser.template \in {Null, Tpl(<< >>)} =>
                locals.template = Tpl(<< Field("text") >>))
        /\ (parser.sep \in {Null, Str("")} => locals.sep = Str("\n"))

C7_Witness ==
    /\ ParseReturned
    /\ parser.template = Tpl(<< >>)
    /\ parser.sep = Str("")
    /\ Len(parser.df) = 2
    /\ locals.sep = Str("\n")

Spec == Init /\ [][Next]_vars
====
